---- MODULE Spec2Model ----
(***************************************************************************)
(* GlobeChartComponent (globe-chart.component.ts), getCountryCoordinates    *)
(* (country-coordinates.ts), the handlers of EmissionsListComponent         *)
(* (emissions-list.component.ts) and FilterPanelComponent                   *)
(* (filter-panel.component.ts), and EmissionsStore (emissions.store.ts) as  *)
(* a state machine.  An asynchronous store call is an entry of inFlight     *)
(* from its request to the arrival of the response; the arrival runs the    *)
(* rest of the call.                                                        *)
(*                                                                          *)
(* Numbers.  Emission amounts are naturals (metric tons).  A quotient of    *)
(* two numbers is kept as a record [kind, n, d]: kind "num" is n/d, and the *)
(* IEEE results of a division by zero are kind "nan" and kind "inf".        *)
(* Angles are integers in units of 10^-4 rad (targetRotation) and of        *)
(* 10^-4 / CurScale rad (currentRotation), so that MaxTicks damping steps   *)
(* are exact.  Time is in milliseconds.                                     *)
(***************************************************************************)
EXTENDS Integers, Sequences, FiniteSets, TLC

\* ---------------------------------------------------------------- bounds
MaxRecords == 3
MaxTicks == 2
MaxClock == 2
MaxMoves == 1
MaxCleanups == 2
MaxShare == 100
MaxSorts == 2
MaxRequests == 3

\* ------------------------------------------------------- program constants
ClickThresholdMs == 200
PiUnits == 31416
AutoRotateUnits == 10
DragUnitsPerPixel == 50
DampingDivisor == 10
StartNow == 1000
ClockStepMs == 100

CurScale == DampingDivisor ^ MaxTicks

\* ------------------------------------------------------------ input domains
NULL == "null"

Codes == {"US", "us", "DE", "ZZ"}
Amounts == {0, 1, 3}
Records == [country : Codes, emissions : Amounts]

BoundedSeq(S, n) == UNION {[1..k -> S] : k \in 0..n}
Batches == BoundedSeq(Records, MaxRecords)

\* The record lists offered to the component while its lifecycle runs.
LifecycleBatches ==
  {<<>>,
   <<[country |-> "US", emissions |-> 1]>>,
   <<[country |-> "DE", emissions |-> 3], [country |-> "US", emissions |-> 1]>>}

\* ------------------------------------------------- country-coordinates.ts
\* String.prototype.toUpperCase on the codes of the model.
ToUpperCase(code) == IF code = "us" THEN "US" ELSE code

\* COUNTRY_COORDINATES, restricted to the codes of the model; lat and lng in
\* hundredths of a degree.
COUNTRY_COORDINATES ==
  [US |-> [lat |-> 3709, lng |-> -9571, name |-> "United States"],
   DE |-> [lat |-> 5117, lng |-> 1045, name |-> "Germany"]]

\* getCountryCoordinates that looks the code up as written.
getCountryCoordinates_CaseSensitive(countryCode) ==
  IF countryCode \in DOMAIN COUNTRY_COORDINATES
  THEN COUNTRY_COORDINATES[countryCode]
  ELSE [lat |-> 0, lng |-> 0, name |-> countryCode]

getCountryCoordinates(countryCode) ==
  IF ToUpperCase(countryCode) \in DOMAIN COUNTRY_COORDINATES
  THEN COUNTRY_COORDINATES[ToUpperCase(countryCode)]
  ELSE [lat |-> 0, lng |-> 0, name |-> countryCode]

\* ------------------------------------------------------------- arithmetic
\* a / b as JavaScript computes it for numbers a, b with b >= 0.
Divide(a, b) ==
  IF b # 0 THEN [kind |-> "num", n |-> a, d |-> b]
  ELSE IF a = 0 THEN [kind |-> "nan", n |-> 0, d |-> 0]
  ELSE [kind |-> "inf", n |-> a, d |-> 0]

\* q < num/den for a quotient q (every comparison with NaN is false).
LessThan(q, num, den) ==
  CASE q.kind = "num" -> q.n * den < num * q.d
    [] q.kind = "nan" -> FALSE
    [] q.kind = "inf" -> q.n < 0

\* 0.05 + q * 0.3
SizeOf(q) ==
  IF q.kind = "num" THEN [kind |-> "num", n |-> 5 * q.d + 30 * q.n, d |-> 100 * q.d]
  ELSE q

\* ------------------------------------------------ aggregation and encoding
\* Map.get that never finds the key.
IndexOf_NeverFound(seq, code) == 0

IndexOf(seq, code) ==
  IF \E i \in 1..Len(seq) : seq[i].country = code
  THEN CHOOSE i \in 1..Len(seq) : seq[i].country = code
  ELSE 0

\* The Map is a sequence of its values in insertion order.
RECURSIVE aggregateFrom(_, _, _)
aggregateFrom(emissions, i, aggregated) ==
  IF i > Len(emissions) THEN aggregated
  ELSE LET emission == emissions[i]
           k == IndexOf(aggregated, emission.country)
       IN IF k # 0
          THEN aggregateFrom(emissions, i + 1,
                 [aggregated EXCEPT ![k] =
                    [country |-> @.country,
                     totalEmissions |-> @.totalEmissions + emission.emissions,
                     count |-> @.count + 1]])
          ELSE aggregateFrom(emissions, i + 1,
                 Append(aggregated,
                    [country |-> emission.country,
                     totalEmissions |-> emission.emissions,
                     count |-> 1]))

aggregateEmissionsByCountry(emissions) == aggregateFrom(emissions, 1, <<>>)

RECURSIVE maxEmissionsFrom(_, _, _)
maxEmissionsFrom(countryData, i, maxEmissions) ==
  IF i > Len(countryData) THEN maxEmissions
  ELSE maxEmissionsFrom(countryData, i + 1,
         IF countryData[i].totalEmissions > maxEmissions
         THEN countryData[i].totalEmissions ELSE maxEmissions)

\* getColorForEmissions whose bands include their upper bounds.
getColorForEmissions_UpperInclusive(normalized) ==
  IF normalized.kind = "num" /\ normalized.n * 100 <= 25 * normalized.d THEN "#00ff00"
  ELSE IF normalized.kind = "num" /\ normalized.n * 100 <= 50 * normalized.d THEN "#ffff00"
  ELSE IF normalized.kind = "num" /\ normalized.n * 100 <= 75 * normalized.d THEN "#ff8800"
  ELSE "#ff0000"

getColorForEmissions(normalized) ==
  IF LessThan(normalized, 25, 100) THEN "#00ff00"
  ELSE IF LessThan(normalized, 50, 100) THEN "#ffff00"
  ELSE IF LessThan(normalized, 75, 100) THEN "#ff8800"
  ELSE "#ff0000"

Pad3(n) ==
  IF n < 10 THEN "00" \o ToString(n)
  ELSE IF n < 100 THEN "0" \o ToString(n)
  ELSE ToString(n)

\* toLocaleString('en-US', two fraction digits) of a natural below 10^6.
formatNumber(num) ==
  IF num < 1000 THEN ToString(num) \o ".00"
  ELSE ToString(num \div 1000) \o "," \o Pad3(num % 1000) \o ".00"

normalizedEmissions(data, maxEmissions) == Divide(data.totalEmissions, maxEmissions)

transformToGlobePoints(countryData) ==
  LET maxEmissions == maxEmissionsFrom(countryData, 1, 0)
  IN [i \in 1..Len(countryData) |->
        LET data == countryData[i]
            coords == getCountryCoordinates(data.country)
            normalized == normalizedEmissions(data, maxEmissions)
        IN [lat |-> coords.lat,
            lng |-> coords.lng,
            country |-> data.country,
            totalEmissions |-> data.totalEmissions,
            size |-> SizeOf(normalized),
            color |-> getColorForEmissions(normalized),
            label |-> <<coords.name, data.country,
                        formatNumber(data.totalEmissions), data.count>>]]

\* ------------------------------------------------------------------ state
VARIABLES
  isBrowser,          \* isPlatformBrowser(platformId), fixed at construction
  globeContainer,     \* the ViewChild reference is defined
  lifecycle,          \* last lifecycle hook Angular has run
  destroyed,          \* ngOnDestroy has run (effects are destroyed)
  acquisition,        \* the await in initializeGlobe
  emissions,          \* input signal
  selectedCountry,    \* input signal
  loading, error, hoveredCountry,
  THREE, scene, sceneChildren, camera, renderer, rendererSize, canvasAttached,
  globe, raycaster, mouse, resizeObserver, observing, listeners,
  countryData,        \* the Map last returned by aggregateEmissionsByCountry
  globePoints,        \* the array last returned by transformToGlobePoints
  pipeline,           \* how far the current emissions have been encoded
  pointsData,         \* globe.pointsData()
  animationFrameId,
  pendingFrame,       \* a requestAnimationFrame callback is queued
  isUserInteracting, mouseDownTime,
  pressHeld,          \* the user holds a mouse button or a finger down on the canvas
  targetRotation, currentRotation, globeRotation,
  now,                \* Date.now()
  ticks,              \* executions of animate
  moves,              \* drag movements applied
  dragMoved,          \* a drag movement was recorded since the last press
  clickHandled,       \* the last pointer-up invoked handleCountryClick
  lastEmit,           \* what the last pointer-up emitted on countrySelected
  emitted,            \* every code emitted on countrySelected
  cleanupCalls,       \* calls of cleanup
  thrown,             \* a handler let an exception escape
  sortEvents,         \* the Sort events the table has handed to onSort
  pageEvents,         \* the PageEvents the paginator has handed to onPageChange
  updateFiltersCalls, \* the arguments of the components' calls of store.updateFilters
  deleteRequests,     \* the delete clicks of the list, with the dialog's answer
  deleteEmissionCalls, \* the ids of the list's calls of store.deleteEmission
  snackBar,           \* the messages opened on the snack bar
  filterForm,         \* filterForm.value
  debouncing,         \* a valueChanges emission waits in debounceTime
  filters,            \* filtersState
  storeEmissions,     \* emissionsState
  storeLoading,       \* loadingState
  storeError,         \* errorState
  totalCount,         \* totalCountState
  selectedEmission,   \* selectedEmissionState
  inFlight,           \* the store calls waiting for their response
  issued,             \* requests sent so far
  lastReturn          \* the store call that completed last and what it returned

lifeVars == <<isBrowser, globeContainer, lifecycle, destroyed, acquisition>>
inputVars == <<emissions, selectedCountry>>
signalVars == <<loading, error, hoveredCountry>>
resVars == <<THREE, scene, sceneChildren, camera, renderer, rendererSize, canvasAttached,
             globe, raycaster, mouse, resizeObserver, observing, listeners>>
dataVars == <<countryData, globePoints, pipeline, pointsData>>
frameVars == <<animationFrameId, pendingFrame>>
pointerVars == <<isUserInteracting, mouseDownTime, pressHeld>>
rotVars == <<targetRotation, currentRotation, globeRotation>>
gestureVars == <<dragMoved, clickHandled, lastEmit, emitted>>
storeVars == <<filters, storeEmissions, storeLoading, storeError, totalCount,
               selectedEmission, inFlight, issued, lastReturn>>
panelVars == <<filterForm, debouncing>>
tableVars == <<sortEvents, pageEvents, updateFiltersCalls, deleteRequests, deleteEmissionCalls, snackBar>>
listVars == <<tableVars, panelVars, storeVars>>
globeVars == <<lifeVars, inputVars, signalVars, resVars, dataVars, frameVars, pointerVars,
               rotVars, now, ticks, moves, gestureVars, cleanupCalls, thrown>>
vars == <<globeVars, listVars>>

Sizes == {300, 600}
SceneObjects == {"globe", "ambientLight", "directionalLight", "backLight"}
CanvasEvents == {"mousemove", "mousedown", "mouseup", "touchstart", "touchmove"}
Outcomes == {"ok", "import", "renderer", "globe", "observer"}
ErrorMessage == "Failed to initialize 3D visualization"

\* The state the field initialisers and the constructor leave.
Constructed ==
  /\ lifecycle = "constructed" /\ destroyed = FALSE /\ acquisition = "none"
  /\ selectedCountry = NULL
  /\ loading = TRUE /\ error = NULL /\ hoveredCountry = NULL
  /\ THREE = FALSE /\ scene = FALSE /\ sceneChildren = {} /\ camera = FALSE
  /\ renderer = FALSE /\ rendererSize = 0 /\ canvasAttached = FALSE
  /\ globe = FALSE /\ raycaster = FALSE /\ mouse = FALSE
  /\ resizeObserver = FALSE /\ observing = FALSE /\ listeners = {}
  /\ countryData = <<>> /\ globePoints = <<>> /\ pipeline = "input" /\ pointsData = <<>>
  /\ animationFrameId = FALSE /\ pendingFrame = FALSE
  /\ isUserInteracting = FALSE /\ mouseDownTime = 0 /\ pressHeld = FALSE
  /\ targetRotation = [x |-> 0, y |-> 0]
  /\ currentRotation = [x |-> 0, y |-> 0]
  /\ globeRotation = [x |-> 0, y |-> 0]
  /\ now = StartNow
  /\ ticks = 0 /\ moves = 0
  /\ dragMoved = FALSE /\ clickHandled = FALSE /\ lastEmit = NULL /\ emitted = {}
  /\ cleanupCalls = 0 /\ thrown = FALSE

\* EmissionsListComponent as constructed, before the table has emitted.
ListConstructed ==
  /\ sortEvents = <<>>
  /\ pageEvents = <<>>
  /\ updateFiltersCalls = <<>>
  /\ deleteRequests = <<>>
  /\ deleteEmissionCalls = <<>>
  /\ snackBar = <<>>
  /\ filterForm = [search |-> "", year |-> NULL, yearFrom |-> NULL, yearTo |-> NULL,
                   country |-> "", emissionType |-> "", activity |-> ""]
  /\ debouncing = FALSE
  /\ filters = [page |-> 1, page_size |-> 50, ordering |-> "-year"]
  /\ storeEmissions = <<>>
  /\ storeLoading = FALSE
  /\ storeError = NULL
  /\ totalCount = 0
  /\ selectedEmission = NULL
  /\ inFlight = <<>>
  /\ issued = 0
  /\ lastReturn = [op |-> "none", isNull |-> TRUE, value |-> NULL]

Init ==
  /\ isBrowser \in BOOLEAN
  /\ globeContainer \in BOOLEAN
  /\ emissions \in LifecycleBatches
  /\ Constructed
  /\ ListConstructed

\* ---------------------------------------------------------------- helpers
\* degrees (in hundredths) * Math.PI / 180, in units of 10^-4 rad
DegToUnits(hundredths) == (hundredths * PiUnits) \div 18000

Min(a, b) == IF a < b THEN a ELSE b
Max(a, b) == IF a > b THEN a ELSE b

\* No clamping at all.
ClampX_None(x) == x

\* Math.max(-Math.PI / 2, Math.min(Math.PI / 2, x))
ClampX(x) == Max(-(PiUnits \div 2), Min(PiUnits \div 2, x))

\* cur + (tgt - cur) * 0.1, cur in units of 10^-4 / CurScale rad
Damped(cur, tgt) == cur + (tgt * CurScale - cur) \div DampingDivisor

\* updateGlobeData that encodes the list but hands no points to the globe.
updateGlobeData_LoadsNothing(data, globeNow) ==
  IF ~globeNow
  THEN /\ pipeline' = "input"
       /\ UNCHANGED <<countryData, globePoints, pointsData>>
  ELSE /\ countryData' = aggregateEmissionsByCountry(data)
       /\ globePoints' = transformToGlobePoints(aggregateEmissionsByCountry(data))
       /\ pointsData' = <<>>
       /\ pipeline' = "encoded"

\* updateGlobeData(data), called when this.globe is globeNow
updateGlobeData(data, globeNow) ==
  IF ~globeNow
  THEN /\ pipeline' = "input"
       /\ UNCHANGED <<countryData, globePoints, pointsData>>
  ELSE /\ countryData' = aggregateEmissionsByCountry(data)
       /\ globePoints' = transformToGlobePoints(aggregateEmissionsByCountry(data))
       /\ pointsData' = transformToGlobePoints(aggregateEmissionsByCountry(data))
       /\ pipeline' = "encoded"

\* animate that sets currentRotation to the target at once.
animate_Snap(globeNow) ==
  IF ~isBrowser
  THEN /\ pendingFrame' = FALSE
       /\ UNCHANGED <<animationFrameId, rotVars, ticks>>
  ELSE /\ animationFrameId' = TRUE
       /\ pendingFrame' = TRUE
       /\ currentRotation' = [x |-> targetRotation.x * CurScale,
                              y |-> targetRotation.y * CurScale]
       /\ globeRotation' = IF globeNow THEN currentRotation' ELSE globeRotation
       /\ targetRotation' = IF ~isUserInteracting
                            THEN [targetRotation EXCEPT !.y = @ + AutoRotateUnits]
                            ELSE targetRotation
       /\ ticks' = ticks + 1

\* animate(), called when the fields read by it have the given values
animate(globeNow) ==
  IF ~isBrowser
  THEN /\ pendingFrame' = FALSE
       /\ UNCHANGED <<animationFrameId, rotVars, ticks>>
  ELSE /\ animationFrameId' = TRUE
       /\ pendingFrame' = TRUE
       /\ currentRotation' = [x |-> Damped(currentRotation.x, targetRotation.x),
                              y |-> Damped(currentRotation.y, targetRotation.y)]
       /\ globeRotation' = IF globeNow THEN currentRotation' ELSE globeRotation
       /\ targetRotation' = IF ~isUserInteracting
                            THEN [targetRotation EXCEPT !.y = @ + AutoRotateUnits]
                            ELSE targetRotation
       /\ ticks' = ticks + 1

\* focusOnCountry that does not negate the longitude.
focusOnCountry_Unnegated(countryCode) ==
  LET coords == getCountryCoordinates(countryCode)
  IN targetRotation' = [x |-> DegToUnits(coords.lat), y |-> DegToUnits(coords.lng)]

focusOnCountry(countryCode) ==
  LET coords == getCountryCoordinates(countryCode)
      targetY == DegToUnits(-coords.lng)
      targetX == DegToUnits(coords.lat)
  IN targetRotation' = [x |-> targetX, y |-> targetY]

\* handleCountryClick that emits nothing.
handleCountryClick_Silent ==
  /\ lastEmit' = NULL
  /\ UNCHANGED emitted

handleCountryClick ==
  IF hoveredCountry # NULL
  THEN /\ lastEmit' = hoveredCountry
       /\ emitted' = emitted \cup {hoveredCountry}
  ELSE /\ lastEmit' = NULL
       /\ UNCHANGED emitted

\* Date.now() - this.mouseDownTime < 200
IsShortPress == now - mouseDownTime < ClickThresholdMs

\* cleanup whose renderer disposal is not guarded by a null check.
cleanup_Unguarded ==
  /\ animationFrameId' = FALSE
  /\ pendingFrame' = IF animationFrameId THEN FALSE ELSE pendingFrame
  /\ resizeObserver' = FALSE
  /\ observing' = IF resizeObserver THEN FALSE ELSE observing
  /\ globe' = FALSE
  /\ pointsData' = IF globe THEN <<>> ELSE pointsData
  /\ thrown' = (thrown \/ ~renderer)
  /\ renderer' = FALSE
  /\ rendererSize' = IF renderer THEN 0 ELSE rendererSize
  /\ canvasAttached' = IF renderer THEN FALSE ELSE canvasAttached
  /\ scene' = IF renderer THEN FALSE ELSE scene
  /\ sceneChildren' = IF renderer /\ scene THEN {}
                      ELSE IF globe THEN sceneChildren \ {"globe"} ELSE sceneChildren
  /\ camera' = IF renderer THEN FALSE ELSE camera
  /\ raycaster' = IF renderer THEN FALSE ELSE raycaster
  /\ UNCHANGED <<THREE, mouse, listeners, countryData, globePoints, pipeline>>

cleanup ==
  /\ animationFrameId' = FALSE
  /\ pendingFrame' = IF animationFrameId THEN FALSE ELSE pendingFrame
  /\ resizeObserver' = FALSE
  /\ observing' = IF resizeObserver THEN FALSE ELSE observing
  /\ globe' = FALSE
  /\ pointsData' = IF globe THEN <<>> ELSE pointsData
  /\ renderer' = FALSE
  /\ rendererSize' = IF renderer THEN 0 ELSE rendererSize
  /\ canvasAttached' = IF renderer THEN FALSE ELSE canvasAttached
  /\ scene' = FALSE
  /\ sceneChildren' = IF scene THEN {} ELSE IF globe THEN sceneChildren \ {"globe"} ELSE sceneChildren
  /\ camera' = FALSE
  /\ raycaster' = FALSE
  /\ thrown' = thrown
  /\ UNCHANGED <<THREE, mouse, listeners, countryData, globePoints, pipeline>>

\* ---------------------------------------------------------------- actions
NgOnInit ==
  /\ lifecycle = "constructed" /\ ~destroyed
  /\ lifecycle' = "init"
  /\ loading' = IF ~isBrowser THEN FALSE ELSE loading
  /\ UNCHANGED <<isBrowser, globeContainer, destroyed, acquisition, inputVars, error,
                 hoveredCountry, resVars, dataVars, frameVars, pointerVars, rotVars,
                 now, ticks, moves, gestureVars, cleanupCalls, thrown, listVars>>

\* ngAfterViewInit without the platform check.
NgAfterViewInit_NoPlatformCheck ==
  /\ lifecycle = "init" /\ ~destroyed
  /\ lifecycle' = "viewInit"
  /\ acquisition' = IF ~globeContainer THEN acquisition ELSE "pending"
  /\ UNCHANGED <<isBrowser, globeContainer, destroyed, inputVars, signalVars, resVars,
                 dataVars, frameVars, pointerVars, rotVars, now, ticks, moves,
                 gestureVars, cleanupCalls, thrown, listVars>>

NgAfterViewInit ==
  /\ lifecycle = "init" /\ ~destroyed
  /\ lifecycle' = "viewInit"
  /\ acquisition' = IF ~isBrowser \/ ~globeContainer THEN acquisition ELSE "pending"
  /\ UNCHANGED <<isBrowser, globeContainer, destroyed, inputVars, signalVars, resVars,
                 dataVars, frameVars, pointerVars, rotVars, now, ticks, moves,
                 gestureVars, cleanupCalls, thrown, listVars>>

\* The imports resolve or reject and initializeGlobe runs on from its await,
\* up to the statement that throws for the outcome; then initializeGlobeAsync
\* runs on from its own await.
AcquisitionResolve(outcome, width) ==
  /\ acquisition = "pending"
  /\ THREE' = (outcome # "import")
  /\ scene' = (outcome # "import")
  /\ camera' = (outcome # "import")
  /\ renderer' = (outcome \notin {"import", "renderer"})
  /\ rendererSize' = IF outcome \notin {"import", "renderer"} THEN width ELSE rendererSize
  /\ canvasAttached' = IF outcome \notin {"import", "renderer"} THEN TRUE ELSE canvasAttached
  /\ globe' = (outcome \in {"observer", "ok"})
  /\ sceneChildren' = IF outcome \in {"observer", "ok"} THEN SceneObjects ELSE {}
  /\ raycaster' = (outcome \in {"observer", "ok"})
  /\ mouse' = (outcome \in {"observer", "ok"})
  /\ resizeObserver' = (outcome = "ok")
  /\ observing' = (outcome = "ok")
  /\ IF outcome = "ok"
     THEN /\ IF Len(emissions) > 0
             THEN updateGlobeData(emissions, TRUE)
             ELSE /\ pointsData' = <<>>
                  /\ UNCHANGED <<countryData, globePoints, pipeline>>
          /\ listeners' = CanvasEvents
          /\ animate(TRUE)
          /\ acquisition' = "done"
          /\ UNCHANGED error
     ELSE /\ pointsData' = <<>>
          /\ acquisition' = "failed"
          /\ error' = ErrorMessage
          /\ UNCHANGED <<countryData, globePoints, pipeline, listeners, frameVars, rotVars, ticks>>
  /\ loading' = FALSE
  /\ UNCHANGED <<isBrowser, globeContainer, lifecycle, destroyed, inputVars, hoveredCountry,
                 pointerVars, now, moves, gestureVars, cleanupCalls, thrown, listVars>>

\* The emissions input changes and its effect runs.
EmissionsChange(data) ==
  /\ ~destroyed
  /\ emissions' = data
  /\ IF isBrowser /\ globe /\ Len(data) > 0
     THEN updateGlobeData(data, globe)
     ELSE /\ pipeline' = "input"
          /\ UNCHANGED <<countryData, globePoints, pointsData>>
  /\ UNCHANGED <<lifeVars, selectedCountry, signalVars, resVars, frameVars, pointerVars,
                 rotVars, now, ticks, moves, gestureVars, cleanupCalls, thrown, listVars>>

\* The selectedCountry input changes and its effect runs.
SelectedCountryChange(country) ==
  /\ ~destroyed
  /\ country # selectedCountry
  /\ selectedCountry' = country
  /\ IF isBrowser /\ country # NULL
     THEN /\ focusOnCountry(country)
          /\ UNCHANGED <<currentRotation, globeRotation>>
     ELSE UNCHANGED rotVars
  /\ UNCHANGED <<lifeVars, emissions, signalVars, resVars, dataVars, frameVars, pointerVars,
                 now, ticks, moves, gestureVars, cleanupCalls, thrown, listVars>>

NgOnDestroy ==
  /\ cleanupCalls < MaxCleanups
  /\ cleanupCalls' = cleanupCalls + 1
  /\ destroyed' = TRUE
  /\ cleanup
  /\ UNCHANGED <<isBrowser, globeContainer, lifecycle, acquisition, inputVars, signalVars,
                 pointerVars, rotVars, now, ticks, moves, gestureVars, listVars>>

\* The queued animation frame callback runs.
Animate ==
  /\ pendingFrame
  /\ ticks < MaxTicks
  /\ animate(globe)
  /\ UNCHANGED <<lifeVars, inputVars, signalVars, resVars, dataVars, pointerVars, now,
                 moves, gestureVars, cleanupCalls, thrown, listVars>>

\* The ResizeObserver callback runs handleResize.
Resize(width) ==
  /\ observing
  /\ rendererSize' = IF camera /\ renderer THEN width ELSE rendererSize
  /\ UNCHANGED <<lifeVars, inputVars, signalVars, THREE, scene, sceneChildren, camera, renderer,
                 canvasAttached, globe, raycaster, mouse, resizeObserver, observing, listeners,
                 dataVars, frameVars, pointerVars, rotVars, now, ticks, moves, gestureVars,
                 cleanupCalls, thrown, listVars>>

\* The canvas is in the document and carries a listener for the event.
Dispatches(event) == event \in listeners /\ canvasAttached /\ ~destroyed

\* detectHoveredCountry that takes the country of the first point as hit.
detectHoveredCountry_Hit ==
  hoveredCountry' = IF raycaster /\ camera /\ scene /\ globe /\ pointsData # <<>>
                    THEN pointsData[1].country
                    ELSE hoveredCountry

\* detectHoveredCountry casts the ray and, on a hit, reads the points of the
\* globe into a local constant; it writes no field and no signal.
detectHoveredCountry == hoveredCountry' = hoveredCountry

OnMouseMove(buttons, movementX, movementY) ==
  /\ Dispatches("mousemove")
  /\ IF ~renderer \/ ~camera \/ ~scene
     THEN UNCHANGED <<targetRotation, moves, dragMoved, thrown, hoveredCountry>>
     ELSE IF ~mouse
     THEN /\ thrown' = TRUE
          /\ UNCHANGED <<targetRotation, moves, dragMoved, hoveredCountry>>
     ELSE IF isUserInteracting /\ buttons = 1
     THEN /\ moves < MaxMoves
          /\ targetRotation' =
               [x |-> ClampX(targetRotation.x + movementY * DragUnitsPerPixel),
                y |-> targetRotation.y + movementX * DragUnitsPerPixel]
          /\ moves' = moves + 1
          /\ dragMoved' = TRUE
          /\ detectHoveredCountry
          /\ UNCHANGED thrown
     ELSE /\ detectHoveredCountry
          /\ UNCHANGED <<targetRotation, moves, dragMoved, thrown>>
  /\ UNCHANGED <<lifeVars, inputVars, loading, error, resVars, dataVars, frameVars, pointerVars,
                 currentRotation, globeRotation, now, ticks, clickHandled, lastEmit, emitted,
                 cleanupCalls, listVars>>

OnMouseDown ==
  /\ Dispatches("mousedown")
  /\ pressHeld' = TRUE
  /\ isUserInteracting' = TRUE
  /\ mouseDownTime' = now
  /\ dragMoved' = FALSE /\ clickHandled' = FALSE /\ lastEmit' = NULL
  /\ UNCHANGED <<lifeVars, inputVars, signalVars, resVars, dataVars, frameVars, rotVars,
                 now, ticks, moves, emitted, cleanupCalls, thrown, listVars>>

OnMouseUp ==
  /\ Dispatches("mouseup")
  /\ pressHeld' = FALSE
  /\ isUserInteracting' = FALSE
  /\ IF IsShortPress
     THEN /\ clickHandled' = TRUE
          /\ handleCountryClick
     ELSE /\ clickHandled' = FALSE
          /\ lastEmit' = NULL
          /\ UNCHANGED emitted
  /\ UNCHANGED <<lifeVars, inputVars, signalVars, resVars, dataVars, frameVars, mouseDownTime,
                 rotVars, now, ticks, moves, dragMoved, cleanupCalls, thrown, listVars>>

OnTouchStart(touches) ==
  /\ Dispatches("touchstart")
  /\ pressHeld' = TRUE
  /\ IF touches = 1
     THEN /\ isUserInteracting' = TRUE
          /\ mouseDownTime' = now
          /\ dragMoved' = FALSE /\ clickHandled' = FALSE /\ lastEmit' = NULL
     ELSE UNCHANGED <<isUserInteracting, mouseDownTime, dragMoved, clickHandled, lastEmit>>
  /\ UNCHANGED <<lifeVars, inputVars, signalVars, resVars, dataVars, frameVars, rotVars,
                 now, ticks, moves, emitted, cleanupCalls, thrown, listVars>>

OnTouchMove ==
  /\ Dispatches("touchmove")
  /\ UNCHANGED <<lifeVars, inputVars, signalVars, resVars, dataVars, frameVars, pointerVars,
                 rotVars, now, ticks, moves, gestureVars, cleanupCalls, thrown, listVars>>

\* The press ends where no listener of the component hears it: the finger is
\* lifted (no touchend or touchcancel listener is registered) or the mouse
\* button is released outside the canvas (mouseup is registered on the canvas
\* only).
ReleaseUnheard ==
  /\ pressHeld
  /\ pressHeld' = FALSE
  /\ UNCHANGED <<lifeVars, inputVars, signalVars, resVars, dataVars, frameVars,
                 isUserInteracting, mouseDownTime, rotVars, now, ticks, moves, gestureVars,
                 cleanupCalls, thrown, listVars>>

\* Time passes.
ClockAdvance ==
  /\ now < StartNow + MaxClock * ClockStepMs
  /\ now' = now + ClockStepMs
  /\ UNCHANGED <<lifeVars, inputVars, signalVars, resVars, dataVars, frameVars, pointerVars,
                 rotVars, ticks, moves, gestureVars, cleanupCalls, thrown, listVars>>

\* The public hoveredCountry signal is written from outside the component.
SetHoveredCountry(country) ==
  /\ ~destroyed
  /\ country # hoveredCountry
  /\ hoveredCountry' = country
  /\ UNCHANGED <<lifeVars, inputVars, loading, error, resVars, dataVars, frameVars,
                 pointerVars, rotVars, now, ticks, moves, gestureVars, cleanupCalls, thrown, listVars>>

Movements == {<<10, 0>>, <<0, 400>>, <<0, -400>>}

\* The lifecycle hooks up to the end of the acquisition.
Startup ==
  \/ NgOnInit
  \/ NgAfterViewInit
  \/ \E outcome \in Outcomes, width \in Sizes : AcquisitionResolve(outcome, width)

\* What the host page and the framework do with the component.
Hosting ==
  \/ \E data \in LifecycleBatches : EmissionsChange(data)
  \/ \E country \in {"US", "ZZ", NULL} : SelectedCountryChange(country)
  \/ NgOnDestroy
  \/ Animate
  \/ \E width \in Sizes : Resize(width)

\* What the user does on the canvas, and the time it takes.
Pointing ==
  \/ \E buttons \in {0, 1}, m \in Movements : OnMouseMove(buttons, m[1], m[2])
  \/ OnMouseDown
  \/ OnMouseUp
  \/ \E touches \in {1, 2} : OnTouchStart(touches)
  \/ OnTouchMove
  \/ ClockAdvance

Next == Startup \/ Hosting

Spec == Init /\ [][Next]_vars

\* ------------------------------------------------- the encoding functions
\* aggregateEmissionsByCountry applied to the current record list.
Aggregate ==
  /\ pipeline = "input"
  /\ countryData' = aggregateEmissionsByCountry(emissions)
  /\ pipeline' = "aggregated"
  /\ UNCHANGED <<lifeVars, inputVars, signalVars, resVars, globePoints, pointsData, frameVars,
                 pointerVars, rotVars, now, ticks, moves, gestureVars, cleanupCalls, thrown, listVars>>

\* transformToGlobePoints applied to the Map just computed.
Transform ==
  /\ pipeline = "aggregated"
  /\ globePoints' = transformToGlobePoints(countryData)
  /\ pipeline' = "encoded"
  /\ UNCHANGED <<lifeVars, inputVars, signalVars, resVars, countryData, pointsData, frameVars,
                 pointerVars, rotVars, now, ticks, moves, gestureVars, cleanupCalls, thrown, listVars>>

InitEncode ==
  /\ isBrowser = TRUE
  /\ globeContainer = TRUE
  /\ emissions \in Batches
  /\ Constructed
  /\ ListConstructed

NextEncode == Aggregate \/ Transform

SpecEncode == InitEncode /\ [][NextEncode]_vars

\* The five listeners setupEventListeners registers on the canvas.
Handlers ==
  \/ \E buttons \in {0, 1}, m \in Movements : OnMouseMove(buttons, m[1], m[2])
  \/ OnMouseDown
  \/ OnMouseUp
  \/ \E touches \in {1, 2} : OnTouchStart(touches)
  \/ OnTouchMove

\* The component with its host and the pointer, at one instant of the clock.
NextRotation == Startup \/ Hosting \/ Handlers

SpecRotation == Init /\ [][NextRotation]_vars

\* The component under presses that end on the canvas or away from it.
NextPress == Startup \/ Animate \/ Handlers \/ ReleaseUnheard

SpecPress == Init /\ [][NextPress]_vars

\* Two-country record lists in which the first country's total is every share
\* k / MaxShare of the second's, so that the normalized values sweep [0, 1].
BandBatches ==
  {<<[country |-> "US", emissions |-> k], [country |-> "DE", emissions |-> MaxShare]>> :
     k \in 0..MaxShare}

InitBands ==
  /\ isBrowser = TRUE
  /\ globeContainer = TRUE
  /\ emissions \in BandBatches
  /\ Constructed
  /\ ListConstructed

SpecBands == InitBands /\ [][NextEncode]_vars

\* The component under the pointer, with its public hoveredCountry signal
\* written by the host.
NextHover ==
  \/ Startup
  \/ Pointing
  \/ \E country \in {"US", NULL} : SetHoveredCountry(country)

SpecHover == Init /\ [][NextHover]_vars

\* --------------------------------------------------------- EmissionsStore
\* The rows of the table on the server, by id; rev tells a patched row.
StoreIds == {1, 2}
Row(id) == [id |-> id, rev |-> 0]
Patched(id) == [id |-> id, rev |-> 1]
CreatedId == 3

\* What the server may hold when it answers a list request.
ServerTables == {<<>>, <<Row(1)>>, <<Row(1), Row(2)>>}

\* The ApiError that handleError throws.
ApiError == "ApiError"

Reverse(seq) == [i \in 1..Len(seq) |-> seq[Len(seq) + 1 - i]]

\* The PaginatedResponse for a request with the given filters: the rows in the
\* requested order, all on page 1.
ServerResponse(table, requested) ==
  LET ordered == IF requested.ordering \in {"-year", "-country", "-emissions"}
                 THEN Reverse(table) ELSE table
  IN [results |-> IF requested.page = 1 THEN ordered ELSE <<>>,
      count |-> Len(table)]

\* { ...current, ...partial }
Spread(current, partial) ==
  [k \in DOMAIN current \cup DOMAIN partial |->
     IF k \in DOMAIN partial THEN partial[k] ELSE current[k]]

Without(seq, i) == [j \in 1..(Len(seq) - 1) |-> IF j < i THEN seq[j] ELSE seq[j + 1]]

Request(op, id, caller) == [op |-> op, filters |-> filters', id |-> id, caller |-> caller]

\* A store call up to its await: loading on, error cleared, request sent.
send(pending, op, id, caller) ==
  /\ storeLoading' = TRUE
  /\ storeError' = NULL
  /\ inFlight' = Append(pending, Request(op, id, caller))
  /\ issued' = issued + 1

\* loadEmissions up to its await, called when filtersState is filters'.
loadEmissions(pending, caller) == send(pending, "load", 0, caller)

\* updateFilters that keeps the current page when none is given.
updateFilters_KeepsPage(partial) ==
  /\ filters' = Spread(filters, partial)
  /\ loadEmissions(inFlight, "store")
  /\ UNCHANGED <<storeEmissions, totalCount, selectedEmission, lastReturn>>

updateFilters(partial) ==
  /\ filters' = [Spread(filters, partial) EXCEPT
                   !.page = IF "page" \in DOMAIN partial THEN partial.page ELSE 1]
  /\ loadEmissions(inFlight, "store")
  /\ UNCHANGED <<storeEmissions, totalCount, selectedEmission, lastReturn>>

\* loadEmissionById, createEmission, updateEmission and deleteEmission up to
\* their await; none of them touches filtersState.
invoke(op, id, caller) ==
  /\ filters' = filters
  /\ send(inFlight, op, id, caller)
  /\ UNCHANGED <<storeEmissions, totalCount, selectedEmission, lastReturn>>

\* The messages of the list page's snack bar.
DeletedMessage == "Emission deleted successfully"
FailedMessage == "Failed to delete emission"

\* The list component's continuation of `await this.store.deleteEmission`.
notify(request, success) ==
  snackBar' = IF request.caller = "list"
              THEN Append(snackBar, IF success THEN DeletedMessage ELSE FailedMessage)
              ELSE snackBar

\* emissions.map((e) => (e.id === id ? updated : e))
Replaced(list, id, updated) ==
  [j \in 1..Len(list) |-> IF list[j].id = id THEN updated ELSE list[j]]

\* emissions.filter((e) => e.id !== id)
Removed(list, id) == SelectSeq(list, LAMBDA e : e.id # id)

\* loadEmissions whose finally block leaves loading as it is.
loadEmissionsResolved_KeepsLoading(request, ok, table) ==
  /\ IF ok
     THEN /\ storeEmissions' = ServerResponse(table, request.filters).results
          /\ totalCount' = ServerResponse(table, request.filters).count
          /\ storeError' = storeError
     ELSE /\ storeError' = ApiError
          /\ storeEmissions' = <<>>
          /\ totalCount' = totalCount
  /\ storeLoading' = storeLoading

\* loadEmissions from its await on, for the response to `request`.
loadEmissionsResolved(request, ok, table) ==
  /\ IF ok
     THEN /\ storeEmissions' = ServerResponse(table, request.filters).results
          /\ totalCount' = ServerResponse(table, request.filters).count
          /\ storeError' = storeError
     ELSE /\ storeError' = ApiError
          /\ storeEmissions' = <<>>
          /\ totalCount' = totalCount
  /\ storeLoading' = FALSE

\* deleteEmission that drops the record although the request failed.
deleteEmissionResolved_AlwaysRemoves(request, ok) ==
  /\ storeEmissions' = Removed(storeEmissions, request.id)
  /\ totalCount' = totalCount - 1
  /\ storeError' = IF ok THEN storeError ELSE ApiError
  /\ lastReturn' = [op |-> "deleteEmission", isNull |-> FALSE, value |-> ok]
  /\ storeLoading' = FALSE

\* deleteEmission from its await on.
deleteEmissionResolved(request, ok) ==
  /\ IF ok
     THEN /\ storeEmissions' = Removed(storeEmissions, request.id)
          /\ totalCount' = totalCount - 1
          /\ storeError' = storeError
     ELSE /\ storeError' = ApiError
          /\ UNCHANGED <<storeEmissions, totalCount>>
  /\ lastReturn' = [op |-> "deleteEmission", isNull |-> FALSE, value |-> ok]
  /\ storeLoading' = FALSE

\* updateEmission from its await on.
updateEmissionResolved(request, ok) ==
  /\ IF ok
     THEN /\ storeEmissions' = Replaced(storeEmissions, request.id, Patched(request.id))
          /\ selectedEmission' = Patched(request.id)
          /\ storeError' = storeError
          /\ lastReturn' = [op |-> "updateEmission", isNull |-> FALSE,
                             value |-> Patched(request.id)]
     ELSE /\ storeError' = ApiError
          /\ UNCHANGED <<storeEmissions, selectedEmission>>
          /\ lastReturn' = [op |-> "updateEmission", isNull |-> TRUE, value |-> NULL]
  /\ storeLoading' = FALSE

\* loadEmissionById from its await on.
loadEmissionByIdResolved(request, ok) ==
  /\ IF ok
     THEN /\ selectedEmission' = Row(request.id)
          /\ storeError' = storeError
     ELSE /\ storeError' = ApiError
          /\ selectedEmission' = NULL
  /\ storeLoading' = FALSE

\* The response to inFlight[i] arrives and the awaiting method runs to its
\* end or, for createEmission, to its next await.
Respond(i, ok, table) ==
  LET request == inFlight[i]
      others == Without(inFlight, i)
  IN /\ i \in 1..Len(inFlight)
     /\ filters' = filters
     /\ CASE request.op = "load" ->
               /\ loadEmissionsResolved(request, ok, table)
               /\ inFlight' = others
               /\ issued' = issued
               /\ selectedEmission' = selectedEmission
               /\ lastReturn' = IF request.caller = "create"
                                THEN [op |-> "createEmission", isNull |-> FALSE,
                                      value |-> Row(CreatedId)]
                                ELSE [op |-> "loadEmissions", isNull |-> TRUE, value |-> NULL]
               /\ snackBar' = snackBar
          [] request.op = "loadById" ->
               /\ loadEmissionByIdResolved(request, ok)
               /\ inFlight' = others
               /\ lastReturn' = [op |-> "loadEmissionById", isNull |-> TRUE, value |-> NULL]
               /\ UNCHANGED <<storeEmissions, totalCount, issued, snackBar>>
          [] request.op = "create" ->
               IF ok
               THEN /\ loadEmissions(others, "create")
                    /\ UNCHANGED <<storeEmissions, totalCount, selectedEmission, lastReturn,
                                   snackBar>>
               ELSE /\ storeError' = ApiError
                    /\ lastReturn' = [op |-> "createEmission", isNull |-> TRUE, value |-> NULL]
                    /\ storeLoading' = FALSE
                    /\ inFlight' = others
                    /\ UNCHANGED <<storeEmissions, totalCount, selectedEmission, issued,
                                   snackBar>>
          [] request.op = "update" ->
               /\ updateEmissionResolved(request, ok)
               /\ inFlight' = others
               /\ UNCHANGED <<totalCount, issued, snackBar>>
          [] request.op = "delete" ->
               /\ deleteEmissionResolved(request, ok)
               /\ notify(request, ok)
               /\ inFlight' = others
               /\ UNCHANGED <<selectedEmission, issued>>
     /\ UNCHANGED <<globeVars, sortEvents, pageEvents, updateFiltersCalls, deleteRequests,
                    deleteEmissionCalls, panelVars>>

\* ------------------------------------------------- EmissionsListComponent
\* The Sort events of MatSort: the id of a sorted column or the empty string,
\* and a direction or the empty string.
SortColumns == {"", "country", "emissions", "year"}
SortDirections == {"", "asc", "desc"}
Sorts == [active : SortColumns, direction : SortDirections]

\* The component calls store.updateFilters with the argument.
callUpdateFilters(partial) ==
  /\ updateFiltersCalls' = Append(updateFiltersCalls, partial)
  /\ updateFilters(partial)

\* onSort that never prefixes the column.
onSort_Ascending(sort) ==
  IF sort.active = "" \/ sort.direction = ""
  THEN callUpdateFilters([ordering |-> "-year"])
  ELSE callUpdateFilters([ordering |-> sort.active])

onSort(sort) ==
  IF sort.active = "" \/ sort.direction = ""
  THEN callUpdateFilters([ordering |-> "-year"])
  ELSE LET direction == IF sort.direction = "asc" THEN "" ELSE "-"
           ordering == direction \o sort.active
       IN callUpdateFilters([ordering |-> ordering])

\* The table header emits matSortChange and the template calls onSort.
OnSort(sort) ==
  /\ Len(sortEvents) < MaxSorts
  /\ issued < MaxRequests
  /\ sortEvents' = Append(sortEvents, sort)
  /\ onSort(sort)
  /\ UNCHANGED <<globeVars, pageEvents, deleteRequests, deleteEmissionCalls, snackBar,
                 panelVars>>

PageEvents == [pageIndex : {0, 2}, pageSize : {50, 100}]

onPageChange(event) ==
  callUpdateFilters([page |-> event.pageIndex + 1, page_size |-> event.pageSize])

\* The paginator emits page and the template calls onPageChange.
OnPageChange(event) ==
  /\ issued < MaxRequests
  /\ pageEvents' = Append(pageEvents, event)
  /\ onPageChange(event)
  /\ UNCHANGED <<globeVars, sortEvents, deleteRequests, deleteEmissionCalls, snackBar,
                 panelVars>>

\* The list page, with a globe that has been given no records.
InitList ==
  /\ isBrowser = TRUE
  /\ globeContainer = TRUE
  /\ emissions = <<>>
  /\ Constructed
  /\ ListConstructed

NextList == \E sort \in Sorts : OnSort(sort)

SpecList == InitList /\ [][NextList]_vars

\* --------------------------------------------------- FilterPanelComponent
\* String.prototype.trim on the strings of the model.
Trim(str) == IF str = " " THEN "" ELSE str

\* Number(value) on the year strings of the model.
NumberOf(str) ==
  CASE str = "2019" -> 2019
    [] str = "2020" -> 2020
    [] str = "2021" -> 2021

\* What the user puts into one control of the form: a text control that is
\* trimmed, a number control, and the country control.
FormEdits ==
  {<<"search", "co2">>, <<"search", " ">>, <<"search", "">>,
   <<"year", "2020">>, <<"year", NULL>>,
   <<"country", "us">>, <<"country", "">>}

\* The filters object applyFilters builds from the form's value.
applyFiltersArgument(values) ==
  LET present ==
        {k \in {"search", "year", "year__gte", "year__lte", "country", "emission_type",
                "activity"} :
           CASE k = "search" -> Trim(values.search) # ""
             [] k = "year" -> values.year # NULL
             [] k = "year__gte" -> values.yearFrom # NULL
             [] k = "year__lte" -> values.yearTo # NULL
             [] k = "country" -> Trim(values.country) # ""
             [] k = "emission_type" -> values.emissionType # ""
             [] k = "activity" -> values.activity # ""}
  IN [k \in present |->
        CASE k = "search" -> Trim(values.search)
          [] k = "year" -> NumberOf(values.year)
          [] k = "year__gte" -> NumberOf(values.yearFrom)
          [] k = "year__lte" -> NumberOf(values.yearTo)
          [] k = "country" -> ToUpperCase(Trim(values.country))
          [] k = "emission_type" -> values.emissionType
          [] k = "activity" -> values.activity]

applyFilters(values) == callUpdateFilters(applyFiltersArgument(values))

\* The user changes one control; valueChanges emits into debounceTime.
FormChange(field, value) ==
  /\ filterForm[field] # value
  /\ filterForm' = [filterForm EXCEPT ![field] = value]
  /\ debouncing' = TRUE
  /\ UNCHANGED <<globeVars, tableVars, storeVars>>

\* 500 ms pass without a further change and the subscriber runs applyFilters.
ApplyFilters ==
  /\ debouncing
  /\ issued < MaxRequests
  /\ debouncing' = FALSE
  /\ applyFilters(filterForm)
  /\ UNCHANGED <<globeVars, sortEvents, pageEvents, deleteRequests, deleteEmissionCalls,
                 snackBar, filterForm>>

\* The list page under sort, page and filter events, before any response.
NextPaging ==
  \/ \E sort \in {[active |-> "country", direction |-> "asc"],
                   [active |-> "year", direction |-> ""]} : OnSort(sort)
  \/ \E event \in PageEvents : OnPageChange(event)
  \/ \E edit \in FormEdits : FormChange(edit[1], edit[2])
  \/ ApplyFilters

SpecPaging == InitList /\ [][NextPaging]_vars

\* ------------------------------------------- the pages that call the store
\* ngOnInit of the list page: await this.store.loadEmissions().
LoadEmissions ==
  /\ issued < MaxRequests
  /\ invoke("load", 0, "list")
  /\ UNCHANGED <<globeVars, tableVars, panelVars>>

LoadEmissionById(id) ==
  /\ issued < MaxRequests
  /\ invoke("loadById", id, "store")
  /\ UNCHANGED <<globeVars, tableVars, panelVars>>

\* createEmission sends a second request, the reload, when the first succeeds.
CreateEmission ==
  /\ issued + 1 < MaxRequests
  /\ invoke("create", CreatedId, "store")
  /\ UNCHANGED <<globeVars, tableVars, panelVars>>

UpdateEmission(id) ==
  /\ issued < MaxRequests
  /\ invoke("update", id, "store")
  /\ UNCHANGED <<globeVars, tableVars, panelVars>>

\* store.deleteEmission called by another page than the list.
StoreDeleteEmission(id) ==
  /\ issued < MaxRequests
  /\ invoke("delete", id, "store")
  /\ UNCHANGED <<globeVars, tableVars, panelVars>>

\* The list's deleteEmission that does not look at the answer of confirm().
deleteEmission_Unconfirmed(emission, confirmDelete) ==
  /\ deleteEmissionCalls' = Append(deleteEmissionCalls, emission.id)
  /\ invoke("delete", emission.id, "list")

\* The list's deleteEmission up to its await; confirmDelete is what confirm()
\* returned.
deleteEmission(emission, confirmDelete) ==
  IF ~confirmDelete
  THEN UNCHANGED <<deleteEmissionCalls, storeVars>>
  ELSE /\ deleteEmissionCalls' = Append(deleteEmissionCalls, emission.id)
       /\ invoke("delete", emission.id, "list")

\* The user presses the delete button of a displayed row and answers the
\* confirmation dialog.
DeleteEmission(emission, confirmDelete) ==
  /\ Len(deleteRequests) < MaxRequests
  /\ confirmDelete => issued < MaxRequests
  /\ deleteRequests' = Append(deleteRequests, [id |-> emission.id, confirmed |-> confirmDelete])
  /\ deleteEmission(emission, confirmDelete)
  /\ UNCHANGED <<globeVars, sortEvents, pageEvents, updateFiltersCalls, snackBar, panelVars>>

Rows(list) == {list[j] : j \in 1..Len(list)}

\* The tables a response to the request can be computed from; only a
\* successful load reads the table.
TablesFor(request) == IF request.op = "load" THEN ServerTables ELSE {<<>>}

\* The store under calls of its methods and responses arriving in any order.
NextStore ==
  \/ LoadEmissions
  \/ \E id \in StoreIds : LoadEmissionById(id)
  \/ CreateEmission
  \/ \E id \in StoreIds : UpdateEmission(id)
  \/ \E id \in StoreIds : StoreDeleteEmission(id)
  \/ \E emission \in Rows(storeEmissions), confirmDelete \in BOOLEAN :
       DeleteEmission(emission, confirmDelete)
  \/ \E i \in 1..Len(inFlight), ok \in BOOLEAN :
       \E table \in TablesFor(inFlight[i]) : Respond(i, ok, table)

SpecStore == InitList /\ [][NextStore]_vars

\* The table of a server nobody else writes to.
QuietTable == <<Row(1), Row(2)>>

\* The list page under sort and page events, each starting a load while
\* earlier ones may be in flight; every response succeeds and is computed
\* from the same table.
NextLoads ==
  \/ \E sort \in Sorts : OnSort(sort)
  \/ \E event \in PageEvents : OnPageChange(event)
  \/ \E i \in 1..Len(inFlight) : Respond(i, TRUE, QuietTable)

SpecLoads == InitList /\ [][NextLoads]_vars

\* ----------------------------------------------------------------- claims
\* No renderer, scene, camera, globe or resize observer is held, no canvas is
\* attached and no animation frame is scheduled.
Released ==
  /\ ~renderer /\ ~scene /\ ~camera /\ ~globe /\ ~raycaster
  /\ ~resizeObserver /\ ~observing /\ ~canvasAttached
  /\ ~animationFrameId /\ ~pendingFrame

\* Everything but the count of cleanup calls.
componentVars == <<lifeVars, inputVars, signalVars, resVars, dataVars, frameVars, pointerVars,
                   rotVars, now, ticks, moves, gestureVars, thrown>>

\* C1: once the globe is initialized in a browser and not torn down, the points
\* the globe holds are the encoding of the current record list, so an empty
\* list leaves the globe without points.
C1_PointsFollowInput ==
  (isBrowser /\ acquisition = "done" /\ ~destroyed)
    => pointsData = transformToGlobePoints(aggregateEmissionsByCountry(emissions))

\* C2: once teardown has run, no animation frame is scheduled and the frame
\* handle is cleared, whenever in the lifecycle teardown ran.
C2_NoFrameAfterTeardown ==
  destroyed => (~pendingFrame /\ ~animationFrameId)

\* C3: when the acquisition resolves after teardown, the resulting state holds
\* no renderer, scene, camera, globe or resize observer, has no canvas attached
\* and no pointer listener registered.
C3_LateAcquisitionReleased ==
  [][(destroyed /\ acquisition = "pending" /\ acquisition' # "pending")
       => (~renderer' /\ ~scene' /\ ~camera' /\ ~globe' /\ ~resizeObserver'
           /\ ~canvasAttached' /\ listeners' = {})]_vars

\* C4: cleanup never raises an error, every call of it ends with all resource
\* references null, and a call made when an earlier call has already released
\* everything (two calls in succession, or a call before or during an
\* initialization that never completed) changes nothing.
C4_TeardownIdempotent ==
  /\ [](~thrown)
  /\ [][NgOnDestroy => Released']_vars
  /\ [][(NgOnDestroy /\ cleanupCalls >= 1 /\ Released) => UNCHANGED componentVars]_vars

C4_Witness ==
  cleanupCalls = 2 /\ acquisition = "pending" /\ Released /\ ~thrown

\* C5: without a rendering surface (isBrowser false) no hook, emissions change
\* or focus request creates a renderer, scene, camera, globe, resize observer,
\* listener or animation frame, no acquisition is ever started, and loading is
\* false from ngOnInit on.
C5_ServerRendersNothing ==
  ~isBrowser =>
    /\ Released
    /\ ~THREE /\ listeners = {}
    /\ acquisition = "none"
    /\ (lifecycle # "constructed" => ~loading)

C5_Witness ==
  /\ ~isBrowser /\ globeContainer /\ lifecycle = "viewInit" /\ ~loading
  /\ Len(emissions) > 0 /\ selectedCountry = "US" /\ cleanupCalls = 1

\* C6: a pointer-up that ends a gesture in which a drag movement was recorded
\* does not invoke click handling.
C6_DragIsNotClick ==
  ~(dragMoved /\ clickHandled)

CodesIn(list) == {list[i].country : i \in 1..Len(list)}

RECURSIVE SumFor(_, _, _)
SumFor(list, code, i) ==
  IF i = 0 THEN 0
  ELSE SumFor(list, code, i - 1) + (IF list[i].country = code THEN list[i].emissions ELSE 0)

CountFor(list, code) == Cardinality({i \in 1..Len(list) : list[i].country = code})

RollupsOf(countryMap) ==
  {<<countryMap[i].country, countryMap[i].totalEmissions, countryMap[i].count>> :
     i \in 1..Len(countryMap)}

Reorderings(list) ==
  {[i \in 1..Len(list) |-> list[p[i]]] : p \in Permutations(1..Len(list))}

\* C8: the Map returned by aggregateEmissionsByCountry has exactly one rollup
\* per code of the list, with the sum of that code's amounts and the number of
\* its records; every reordering of the list gives the same rollups; the empty
\* list gives the empty Map.
C8_AggregationSumsAndCounts ==
  pipeline # "input" =>
    /\ RollupsOf(countryData) =
         {<<c, SumFor(emissions, c, Len(emissions)), CountFor(emissions, c)>> :
            c \in CodesIn(emissions)}
    /\ Len(countryData) = Cardinality(CodesIn(emissions))
    /\ \A list \in Reorderings(emissions) :
         RollupsOf(aggregateEmissionsByCountry(list)) = RollupsOf(countryData)
    /\ (emissions = <<>> => countryData = <<>>)

C8_Witness ==
  /\ pipeline = "aggregated"
  /\ Len(emissions) = 3 /\ Len(countryData) = 2
  /\ emissions[1].country = emissions[3].country
  /\ \E i \in 1..2 : countryData[i].count = 2 /\ countryData[i].totalEmissions = 4

\* C9: encoding a record list gives one point per country present, where codes
\* that differ only in letter case are the same country.
C9_OnePointPerCountry ==
  pipeline = "encoded" =>
    Len(globePoints) = Cardinality({ToUpperCase(c) : c \in CodesIn(emissions)})

\* C10: for a non-empty rollup Map the normalized value of every entry is a
\* number in [0, 1], also when the maximum total of the batch is zero, and so
\* the size of every point is a number.
C10_NormalizedDefined ==
  pipeline = "encoded" =>
    \A i \in 1..Len(countryData) :
      LET q == normalizedEmissions(countryData[i], maxEmissionsFrom(countryData, 1, 0))
      IN /\ q.kind = "num" /\ 0 <= q.n /\ q.n <= q.d
         /\ globePoints[i].size.kind = "num"

\* C11: in every encoded batch each point's size is the number
\* 0.05 + (total / maximum total) * 0.3, lies in [0.05, 0.35], is no smaller
\* than the size of any point of the batch with a smaller or equal total, and
\* is 0.35 for a point with the maximum total.
C11_SizeLinearAndBounded ==
  pipeline = "encoded" =>
    LET maxTotal == maxEmissionsFrom(countryData, 1, 0)
    IN \A i \in 1..Len(globePoints) :
         LET p == globePoints[i]
         IN /\ p.size.kind = "num"
            /\ p.size.n * 100 * maxTotal = (5 * maxTotal + 30 * p.totalEmissions) * p.size.d
            /\ 5 * p.size.d <= 100 * p.size.n
            /\ 100 * p.size.n <= 35 * p.size.d
            /\ \A j \in 1..Len(globePoints) :
                 globePoints[j].totalEmissions <= p.totalEmissions
                   => globePoints[j].size.n * p.size.d <= p.size.n * globePoints[j].size.d
            /\ (p.totalEmissions = maxTotal => 100 * p.size.n = 35 * p.size.d)

\* The index of a colour in the order green, yellow, orange, red.
BandOf(color) ==
  CASE color = "#00ff00" -> 0
    [] color = "#ffff00" -> 1
    [] color = "#ff8800" -> 2
    [] color = "#ff0000" -> 3

\* C12: a point whose total is the share t / m of the maximum m is green for
\* t/m in [0, 0.25), yellow in [0.25, 0.5), orange in [0.5, 0.75) and red in
\* [0.75, 1]; in particular 0.24 is green, 0.25 and 0.49 yellow, 0.50 and 0.74
\* orange, 0.75 and 1.0 red; and the band index never decreases as the
\* normalized value grows.
C12_ColorBands ==
  pipeline = "encoded" =>
    LET m == maxEmissionsFrom(countryData, 1, 0)
    IN \A i \in 1..Len(globePoints) :
         LET t == globePoints[i].totalEmissions
             c == globePoints[i].color
         IN /\ (0 <= t /\ 4 * t < m) => c = "#00ff00"
            /\ (m <= 4 * t /\ 2 * t < m) => c = "#ffff00"
            /\ (m <= 2 * t /\ 4 * t < 3 * m) => c = "#ff8800"
            /\ (3 * m <= 4 * t /\ t <= m) => c = "#ff0000"
            /\ (100 * t = 24 * m) => c = "#00ff00"
            /\ (100 * t \in {25 * m, 49 * m}) => c = "#ffff00"
            /\ (100 * t \in {50 * m, 74 * m}) => c = "#ff8800"
            /\ (100 * t \in {75 * m, 100 * m}) => c = "#ff0000"
            /\ \A k \in 0..m :
                 /\ k <= t => BandOf(getColorForEmissions(Divide(k, m))) <= BandOf(c)
                 /\ k >= t => BandOf(getColorForEmissions(Divide(k, m))) >= BandOf(c)

C12_Witness ==
  /\ pipeline = "encoded"
  /\ \E i \in 1..Len(globePoints) :
       /\ 4 * globePoints[i].totalEmissions = maxEmissionsFrom(countryData, 1, 0)
       /\ globePoints[i].totalEmissions > 0
       /\ globePoints[i].color = "#ffff00"

\* C13: every rollup is encoded to a point, in the rollups' order; the point of
\* a code that is in the table in some letter case has that entry's latitude,
\* longitude and name, and the point of any other code has latitude 0,
\* longitude 0 and the code itself as its name.
C13_LookupTotal ==
  pipeline = "encoded" =>
    /\ Len(globePoints) = Len(countryData)
    /\ \A i \in 1..Len(countryData) :
         LET code == countryData[i].country
             p == globePoints[i]
         IN /\ p.country = code
            /\ code \in {"US", "us"} =>
                 (p.lat = 3709 /\ p.lng = -9571 /\ p.label[1] = "United States")
            /\ code = "DE" => (p.lat = 5117 /\ p.lng = 1045 /\ p.label[1] = "Germany")
            /\ code \notin {"US", "us", "DE"} =>
                 (p.lat = 0 /\ p.lng = 0 /\ p.label[1] = code)

C13_Witness ==
  /\ pipeline = "encoded"
  /\ \E i, j \in 1..Len(globePoints) :
       /\ globePoints[i].country = "ZZ" /\ globePoints[i].label[1] = "ZZ"
       /\ globePoints[i].lat = 0 /\ globePoints[i].lng = 0
       /\ globePoints[j].country = "us" /\ globePoints[j].label[1] = "United States"

\* |a - b| < eps
Near(a, b, eps) == a - b < eps /\ b - a < eps

\* C14: in a browser, a change of selectedCountry to a country code sets
\* targetRotation.x to latitude * pi / 180 and targetRotation.y to
\* -longitude * pi / 180 of the coordinates looked up for the code (within one
\* unit of the model's angles), whether or not a press is in progress, and
\* leaves isUserInteracting, mouseDownTime and currentRotation as they were.
C14_FocusSetsTarget ==
  [][(isBrowser /\ selectedCountry' # selectedCountry /\ selectedCountry' # NULL)
       => LET coords == getCountryCoordinates(selectedCountry')
          IN /\ Near(targetRotation'.x * 18000, coords.lat * PiUnits, 18000)
             /\ Near(targetRotation'.y * 18000, -(coords.lng * PiUnits), 18000)
             /\ UNCHANGED <<isUserInteracting, mouseDownTime, currentRotation>>]_vars

\* A focus on US issued after a drag movement of the press still in progress.
C14_Witness ==
  /\ isUserInteracting /\ dragMoved /\ mouseDownTime = now
  /\ selectedCountry = "US"
  /\ Near(targetRotation.x * 18000, 3709 * PiUnits, 18000)
  /\ Near(targetRotation.y * 18000, 9571 * PiUnits, 18000)

\* C15: a step changes currentRotation only if it is a render tick; a render
\* tick adds to each axis of currentRotation exactly one tenth of its
\* difference to targetRotation, so an axis that was off the target is still
\* off it after the tick; a step that changes selectedCountry (a focus
\* request) leaves currentRotation as it was.
C15_OnlyTickMovesCurrent ==
  [][/\ currentRotation' # currentRotation => ticks' = ticks + 1
     /\ ticks' = ticks + 1 =>
          /\ 10 * (currentRotation'.x - currentRotation.x)
               = targetRotation.x * CurScale - currentRotation.x
          /\ 10 * (currentRotation'.y - currentRotation.y)
               = targetRotation.y * CurScale - currentRotation.y
          /\ currentRotation.x # targetRotation.x * CurScale
               => currentRotation'.x # targetRotation.x * CurScale
          /\ currentRotation.y # targetRotation.y * CurScale
               => currentRotation'.y # targetRotation.y * CurScale
     /\ selectedCountry' # selectedCountry => currentRotation' = currentRotation]_vars

\* One tick after a focus on US that followed the first tick: currentRotation.x
\* is a tenth of the way to the target.
C15_Witness ==
  /\ ticks = 2 /\ selectedCountry = "US"
  /\ targetRotation.x # 0
  /\ 10 * currentRotation.x = targetRotation.x * CurScale

\* pi / 2 in the units of targetRotation.
HalfPi == PiUnits \div 2

\* C16: in every reachable state targetRotation.x and currentRotation.x lie in
\* [-pi/2, pi/2]; and a step that applies a drag movement adds
\* movementX * 0.005 to targetRotation.y and sets targetRotation.x to
\* targetRotation.x + movementY * 0.005 cut to [-pi/2, pi/2].
C16_PitchClamped ==
  /\ [](/\ -HalfPi <= targetRotation.x /\ targetRotation.x <= HalfPi
        /\ -HalfPi * CurScale <= currentRotation.x
        /\ currentRotation.x <= HalfPi * CurScale)
  /\ [][moves' = moves + 1 =>
         \E m \in Movements :
           LET sum == targetRotation.x + m[2] * 50
           IN /\ targetRotation'.y = targetRotation.y + m[1] * 50
              /\ targetRotation'.x = (IF sum > HalfPi THEN HalfPi
                                      ELSE IF sum < -HalfPi THEN -HalfPi ELSE sum)]_vars

\* A drag of 400 pixels downwards after a focus on US has hit the clamp, and a
\* tick has followed.
C16_Witness ==
  /\ moves = 1 /\ selectedCountry = "US" /\ ticks = 2
  /\ targetRotation.x = HalfPi
  /\ currentRotation.x > 0

\* C17: once the acquisition has failed, no exception has escaped, error is
\* set and loading is false, no frame was ever requested, no listener is
\* registered and the acquisition is not started again; and a later change of
\* emissions or selectedCountry runs no update on a globe and changes nothing
\* of the renderer.
C17_FailureIsFinal ==
  /\ [](acquisition = "failed" =>
          /\ ~thrown /\ error # NULL /\ ~loading
          /\ ticks = 0 /\ ~pendingFrame /\ ~animationFrameId
          /\ listeners = {})
  /\ [][acquisition = "failed" => acquisition' = "failed"]_vars
  /\ [][(acquisition = "failed"
          /\ (emissions' # emissions \/ selectedCountry' # selectedCountry))
         => /\ pipeline' # "encoded"
            /\ UNCHANGED <<pointsData, globeRotation, renderer, rendererSize, canvasAttached>>]_vars

\* C18: a teardown step ends with the frame cancelled, the resize observer
\* disconnected, the renderer and its canvas released, the scene references
\* cleared and none of the five listeners registered by setupEventListeners
\* still registered.
C18_TeardownDetachesListeners ==
  [][cleanupCalls' = cleanupCalls + 1
       => /\ ~pendingFrame' /\ ~animationFrameId'
          /\ ~resizeObserver' /\ ~observing'
          /\ ~renderer' /\ ~canvasAttached'
          /\ listeners' \cap CanvasEvents = {}
          /\ ~scene' /\ ~camera' /\ ~globe' /\ ~raycaster']_vars

\* C19: while loading is true, a step that changes emissions or
\* selectedCountry changes nothing of the globe, scene, camera or renderer
\* and runs no update on a globe; and the step that completes the acquisition
\* successfully leaves the globe holding the encoding of the record list
\* current at that step.
C19_LoadingWindow ==
  /\ [][(loading /\ (emissions' # emissions \/ selectedCountry' # selectedCountry))
         => /\ pipeline' # "encoded"
            /\ UNCHANGED <<globe, pointsData, globeRotation, scene, sceneChildren, camera,
                           renderer, rendererSize, canvasAttached>>]_vars
  /\ [][(acquisition = "pending" /\ acquisition' = "done")
         => /\ emissions' = emissions
            /\ globe'
            /\ pointsData' = transformToGlobePoints(aggregateEmissionsByCountry(emissions))]_vars

\* The acquisition has just completed with two countries loaded, and its first
\* tick has moved towards a focus on US that was requested while loading.
C19_Witness ==
  /\ acquisition = "done" /\ ~loading /\ ticks = 1
  /\ Len(emissions) = 2 /\ Len(pointsData) = 2
  /\ selectedCountry = "US"
  /\ currentRotation.x > 0
  /\ targetRotation.y = DegToUnits(9571) + AutoRotateUnits

\* C20: every call of onSort makes exactly one call of store.updateFilters,
\* whose argument holds only an ordering: the column for an ascending sort of
\* a column, the column prefixed with "-" for a descending sort of a column,
\* and "-year" when the event has no column or no direction.
C20_SortOrdering ==
  /\ Len(updateFiltersCalls) = Len(sortEvents)
  /\ \A i \in 1..Len(sortEvents) :
       LET sort == sortEvents[i]
           call == updateFiltersCalls[i]
       IN /\ DOMAIN call = {"ordering"}
          /\ (sort.active # "" /\ sort.direction = "asc") => call.ordering = sort.active
          /\ (sort.active = "country" /\ sort.direction = "desc") => call.ordering = "-country"
          /\ (sort.active = "emissions" /\ sort.direction = "desc")
               => call.ordering = "-emissions"
          /\ (sort.active = "year" /\ sort.direction = "desc") => call.ordering = "-year"
          /\ (sort.active = "" \/ sort.direction = "") => call.ordering = "-year"

C20_Witness ==
  /\ Len(sortEvents) = 2
  /\ sortEvents[1] = [active |-> "emissions", direction |-> "desc"]
  /\ updateFiltersCalls[1] = [ordering |-> "-emissions"]
  /\ sortEvents[2] = [active |-> "country", direction |-> ""]
  /\ updateFiltersCalls[2] = [ordering |-> "-year"]

HasPage(call) == "page" \in DOMAIN call

\* C21: the updates that carry a page are those of the page events, with
\* page = pageIndex + 1 and page_size = pageSize; and the stored page is the
\* page of the most recent update if that update carried one, and 1 if it
\* carried none or no update was made.
C21_PageKeptOrReset ==
  /\ SelectSeq(updateFiltersCalls, HasPage)
       = [i \in 1..Len(pageEvents) |->
            [page |-> pageEvents[i].pageIndex + 1, page_size |-> pageEvents[i].pageSize]]
  /\ filters.page =
       (IF updateFiltersCalls # <<>> /\ HasPage(updateFiltersCalls[Len(updateFiltersCalls)])
        THEN updateFiltersCalls[Len(updateFiltersCalls)].page
        ELSE 1)

\* Page 3 of size 100 was requested, then a filter was applied.
C21_Witness ==
  /\ Len(updateFiltersCalls) = 2
  /\ updateFiltersCalls[1] = [page |-> 3, page_size |-> 100]
  /\ ~HasPage(updateFiltersCalls[2])
  /\ filters.page = 1 /\ filters.page_size = 100

\* The ids of the delete requests the user confirmed, in order.
ConfirmedIds ==
  LET confirmed == SelectSeq(deleteRequests, LAMBDA r : r.confirmed)
  IN [j \in 1..Len(confirmed) |-> confirmed[j].id]

\* The number of the list's store.deleteEmission calls that have not resolved.
ListDeletesInFlight ==
  Len(SelectSeq(inFlight, LAMBDA r : r.op = "delete" /\ r.caller = "list"))

\* C22: the list's deleteEmission calls store.deleteEmission(id) exactly for
\* the requests the user confirmed; a cancelled request makes no store call
\* and no notification; each confirmed request gets exactly one notification,
\* shown in the step in which its store call resolves, the success message
\* when the store returned true and the failure message when it returned
\* false.
C22_DeleteOnlyWhenConfirmed ==
  /\ [](/\ deleteEmissionCalls = ConfirmedIds
        /\ Len(snackBar) + ListDeletesInFlight = Len(deleteEmissionCalls))
  /\ [][snackBar' # snackBar =>
          /\ ListDeletesInFlight' = ListDeletesInFlight - 1
          /\ lastReturn'.op = "deleteEmission"
          /\ snackBar' = Append(snackBar, IF lastReturn'.value THEN DeletedMessage
                                          ELSE FailedMessage)]_vars

\* One request was cancelled, one deletion succeeded and one failed.
C22_Witness ==
  /\ Len(deleteRequests) = 3
  /\ \E j \in 1..3 : ~deleteRequests[j].confirmed
  /\ Len(deleteEmissionCalls) = 2
  /\ snackBar = <<DeletedMessage, FailedMessage>>
  /\ inFlight = <<>>

\* The step starts a call of `op`: its request is the newest one in flight.
Starts(op) ==
  /\ issued' = issued + 1
  /\ inFlight'[Len(inFlight')].op = op

\* The step is the arrival of the response to inFlight[i].
Resolves(i) == inFlight' = Without(inFlight, i)

\* C23: a step that starts loadEmissions sets loading and clears error; the
\* step in which its response arrives either stores the results and count of
\* a response to its request, or sets error, empties the list and keeps
\* totalCount; either way the call returns normally and loading is false.
C23_LoadOutcome ==
  /\ [][Starts("load") => storeLoading' /\ storeError' = NULL]_vars
  /\ [][\A i \in 1..Len(inFlight) :
          inFlight[i].op = "load" /\ Resolves(i) =>
            /\ ~storeLoading'
            /\ lastReturn'.op \in {"loadEmissions", "createEmission"}
            /\ \/ \E table \in ServerTables :
                    /\ storeEmissions' = ServerResponse(table, inFlight[i].filters).results
                    /\ totalCount' = ServerResponse(table, inFlight[i].filters).count
                    /\ storeError' = storeError
               \/ /\ storeError' = ApiError
                  /\ storeEmissions' = <<>>
                  /\ totalCount' = totalCount]_vars

\* A load failed after an earlier one had stored two records.
C23_Witness ==
  /\ lastReturn.op = "loadEmissions"
  /\ storeError = ApiError
  /\ storeEmissions = <<>>
  /\ totalCount = 2
  /\ ~storeLoading
  /\ inFlight = <<>>

\* C24: starting deleteEmission or updateEmission changes neither the list,
\* totalCount nor the selected emission. When the response to a delete
\* arrives, either the call succeeds, or the list and totalCount stay as they
\* are, error is set and false is returned; when the response to an update
\* arrives, either the call succeeds, or the list and the selected emission
\* stay as they are, error is set and null is returned.
C24_FailedWriteChangesNothing ==
  /\ [][Starts("delete") \/ Starts("update") =>
          UNCHANGED <<storeEmissions, totalCount, selectedEmission>>]_vars
  /\ [][\A i \in 1..Len(inFlight) :
          inFlight[i].op = "delete" /\ Resolves(i) =>
            \/ /\ lastReturn'.op = "deleteEmission" /\ lastReturn'.value = TRUE
               /\ storeEmissions' = Removed(storeEmissions, inFlight[i].id)
               /\ storeError' = storeError
            \/ /\ lastReturn'.op = "deleteEmission" /\ lastReturn'.value = FALSE
               /\ storeError' = ApiError
               /\ UNCHANGED <<storeEmissions, totalCount>>]_vars
  /\ [][\A i \in 1..Len(inFlight) :
          inFlight[i].op = "update" /\ Resolves(i) =>
            \/ /\ lastReturn'.op = "updateEmission" /\ ~lastReturn'.isNull
               /\ lastReturn'.value = Patched(inFlight[i].id)
               /\ selectedEmission' = Patched(inFlight[i].id)
               /\ storeError' = storeError
            \/ /\ lastReturn'.op = "updateEmission" /\ lastReturn'.isNull
               /\ storeError' = ApiError
               /\ UNCHANGED <<storeEmissions, selectedEmission>>]_vars

\* The deletion of a displayed record failed and both records are still held.
C24_Witness ==
  /\ deleteEmissionCalls = <<1>>
  /\ lastReturn.op = "deleteEmission" /\ lastReturn.value = FALSE
  /\ storeError = ApiError
  /\ storeEmissions = <<Row(2), Row(1)>>
  /\ totalCount = 2
  /\ inFlight = <<>>

C26_UntouchedMeansNotInteracting == ~pressHeld => ~isUserInteracting

\* C27: once every response has arrived, the list and totalCount are those
\* of the response to the request made with the current filters.
C27_LatestRequestWins ==
  issued > 0 /\ inFlight = <<>> =>
    /\ storeEmissions = ServerResponse(QuietTable, filters).results
    /\ totalCount = ServerResponse(QuietTable, filters).count

\* C28: loading is true exactly while some request of the store is in flight.
C28_LoadingWhileInFlight == storeLoading <=> inFlight # <<>>

\* C29: when no form change waits to be applied, the store's filters hold a
\* search, year, year-range, country, emission-type or activity criterion
\* only if the form field it comes from is not empty.
C29_CriteriaFollowForm ==
  ~debouncing =>
    /\ "search" \in DOMAIN filters => Trim(filterForm.search) # ""
    /\ "year" \in DOMAIN filters => filterForm.year # NULL
    /\ "year__gte" \in DOMAIN filters => filterForm.yearFrom # NULL
    /\ "year__lte" \in DOMAIN filters => filterForm.yearTo # NULL
    /\ "country" \in DOMAIN filters => Trim(filterForm.country) # ""
    /\ "emission_type" \in DOMAIN filters => filterForm.emissionType # ""
    /\ "activity" \in DOMAIN filters => filterForm.activity # ""

\* C30: totalCount is never negative and never smaller than the number of
\* records in the list.
C30_CountCoversList == totalCount >= 0 /\ totalCount >= Len(storeEmissions)

====
